---- MODULE Spec2Model ----
(***************************************************************************)
(* State machine of the QueryPage component                                *)
(* (apps/ai/clients/admin-console/src/pages/queries/[queryId]/index.tsx).  *)
(*                                                                         *)
(* The page holds one piece of state (`query`, from useState), reads the   *)
(* loader's output (`serverQuery`, `isLoadingServerQuery`, `error`) on     *)
(* every render, runs one effect keyed on `serverQuery`, and exposes three *)
(* async handlers that await a remote call, write its result with          *)
(* setQuery and return the loader's mutate().                              *)
(***************************************************************************)
EXTENDS Naturals, FiniteSets, Bags

\* ---------------------------------------------------------------- bounds
MaxVer == 2
MaxCalls == 2

\* ---------------------------------------------------------------- values
Ids == {"A", "B"}
Versions == 1..MaxVer

\* `undefined` of the source, given the shape of a Query so that it compares.
undefined == [id |-> "", ver |-> 0]
Query == [id : Ids, ver : Versions]
QueriesOf(i) == {q \in Query : q.id = i}

SqlTexts == {"SELECT 1"}
Puts == {"puts"}

Kinds == {"resubmit", "execute", "put"}

\* A handler invocation: where it is, which handler, the promptId it captured,
\* whether the instance it belongs to is still mounted, and (lateWrite) whether
\* it has called setQuery after that instance was unmounted.
Call(pc, kind, id, live) ==
  [pc |-> pc, kind |-> kind, id |-> id, live |-> live, refreshOk |-> TRUE,
   lateWrite |-> FALSE]
\* What the caller of a handler gets: its promise resolved or rejected.
Settled(outcome, refreshOk) ==
  [pc |-> outcome, kind |-> "", id |-> "", live |-> FALSE, refreshOk |-> refreshOk,
   lateWrite |-> FALSE]
CallRecord == [pc : {"remote", "refresh", "resolved", "rejected"}, kind : Kinds \cup {""},
               id : Ids \cup {""}, live : BOOLEAN, refreshOk : BOOLEAN,
               lateWrite : BOOLEAN]

VARIABLES
  mounted,               \* a QueryPage instance is on screen
  promptId,              \* router.query.queryId
  serverQuery,           \* useQuery(...).query as of the last render
  isLoadingServerQuery,  \* useQuery(...).isLoading as of the last render
  error,                 \* useQuery(...).error (as a flag) as of the last render
  query,                 \* useState<Query | undefined>
  effectPending,         \* the [serverQuery] effect of the last render has not run yet
  calls,                 \* handler invocations in flight or settled, as a bag
  known,                 \* history: the first defined serverQuery rendered by this
                         \* instance, then the result of its latest successful handler
  mutated                \* history: a handler of this instance has succeeded

vars == <<mounted, promptId, serverQuery, isLoadingServerQuery, error, query,
          effectPending, calls, known, mutated>>

\* ------------------------------------------------------------ pure parts

\* prevState === undefined ? serverQuery : prevState
LatchUpdaterAlwaysAdopt(prevState, sq) == sq
LatchUpdaterNeverAdopt(prevState, sq) == prevState
LatchUpdater(prevState, sq) == IF prevState = undefined THEN sq ELSE prevState

\* The if / else-if chain that selects pageContent.
Loading == [kind |-> "Loading", query |-> undefined]
ErrorView == [kind |-> "Error", query |-> undefined]
Empty == [kind |-> "Empty", query |-> undefined]
Workspace(q) == [kind |-> "Workspace", query |-> q]

pageContentErrorFirst(l, e, q) ==
  IF e THEN ErrorView
  ELSE IF l /\ q = undefined THEN Loading
  ELSE IF q # undefined THEN Workspace(q)
  ELSE Empty
pageContentQueryFirst(l, e, q) ==
  IF l /\ q = undefined THEN Loading
  ELSE IF q # undefined THEN Workspace(q)
  ELSE IF e THEN ErrorView
  ELSE Empty
pageContentLoadingUngated(l, e, q) ==
  IF l THEN Loading
  ELSE IF e THEN ErrorView
  ELSE IF q # undefined THEN Workspace(q)
  ELSE Empty
pageContent(l, e, q) ==
  IF l /\ q = undefined THEN Loading
  ELSE IF e THEN ErrorView
  ELSE IF q # undefined THEN Workspace(q)
  ELSE Empty

Unmounted == [kind |-> "Unmounted", query |-> undefined]
View == IF mounted THEN pageContent(isLoadingServerQuery, error, query) ELSE Unmounted

\* history: a value delivered by the loader is the latest known only if it is
\* the first defined one
Delivered(d) == IF known = undefined THEN d ELSE known

\* ---------------------------------------------------------------- Init
Init ==
  /\ mounted = TRUE
  /\ promptId = "A"
  /\ serverQuery = undefined
  /\ isLoadingServerQuery = TRUE
  /\ error = FALSE
  /\ query = undefined
  /\ effectPending = TRUE
  /\ calls = EmptyBag
  /\ known = undefined
  /\ mutated = FALSE

\* ------------------------------------------------------------- the loader

\* The loader's output changes and the page re-renders with it.  React runs
\* the effects of a render before it starts the next one.
LoaderNotify(d, l, e) ==
  /\ mounted /\ ~effectPending
  /\ d = undefined \/ d.id = promptId
  /\ <<d, l, e>> # <<serverQuery, isLoadingServerQuery, error>>
  /\ serverQuery' = d
  /\ isLoadingServerQuery' = l
  /\ error' = e
  /\ effectPending' = (d # serverQuery)
  /\ known' = Delivered(d)
  /\ UNCHANGED <<mounted, promptId, query, calls, mutated>>

\* useEffect(() => { if (serverQuery) setQuery(prev => ...) }, [serverQuery])
UseEffectNoLatch ==
  /\ mounted /\ effectPending
  /\ query' = IF serverQuery # undefined THEN serverQuery ELSE query
  /\ effectPending' = FALSE
  /\ UNCHANGED <<mounted, promptId, serverQuery, isLoadingServerQuery, error, calls,
                 known, mutated>>
UseEffectUnguarded ==
  /\ mounted /\ effectPending
  /\ query' = serverQuery
  /\ effectPending' = FALSE
  /\ UNCHANGED <<mounted, promptId, serverQuery, isLoadingServerQuery, error, calls,
                 known, mutated>>
UseEffectSkipped ==
  /\ mounted /\ effectPending
  /\ effectPending' = FALSE
  /\ UNCHANGED <<mounted, promptId, serverQuery, isLoadingServerQuery, error, query,
                 calls, known, mutated>>
UseEffect ==
  /\ mounted /\ effectPending
  /\ query' = IF serverQuery # undefined
                THEN LatchUpdater(query, serverQuery)
                ELSE query
  /\ effectPending' = FALSE
  /\ UNCHANGED <<mounted, promptId, serverQuery, isLoadingServerQuery, error, calls,
                 known, mutated>>

\* ------------------------------------------------------------ the handlers

InFlight == BagToSet(calls)
\* What the remote operation of a handler can resolve with: a full Query.  The
\* handler does not look at it, a query of another identifier is written like
\* any other.
RemoteResults(r) == Query
\* the payload the re-fetch of a handler's refresh can bring: a query of the
\* identifier it was started for
Results(r) == IF r.live THEN QueriesOf(r.id) ELSE Query
Replace(r, r2) == (calls (-) SetToBag({r})) (+) SetToBag({r2})

\* A handler of the rendered QueryWorkspace is called; it captures promptId
\* and awaits its remote operation.
InvokeFromAnyView(kind) ==
  /\ mounted
  /\ BagCardinality(calls) < MaxCalls
  /\ calls' = calls (+) SetToBag({Call("remote", kind, promptId, TRUE)})
  /\ UNCHANGED <<mounted, promptId, serverQuery, isLoadingServerQuery, error, query,
                 effectPending, known, mutated>>
Invoke(kind) ==
  /\ View.kind = "Workspace"
  /\ BagCardinality(calls) < MaxCalls
  /\ calls' = calls (+) SetToBag({Call("remote", kind, promptId, TRUE)})
  /\ UNCHANGED <<mounted, promptId, serverQuery, isLoadingServerQuery, error, query,
                 effectPending, known, mutated>>

handleResubmitQuery == Invoke("resubmit")
handleExecuteQuery(sql_query) == sql_query \in SqlTexts /\ Invoke("execute")
handlePutQuery(puts) == puts \in Puts /\ Invoke("put")

\* const newQuery = await ...; setQuery(newQuery); return mutate()
\* The setQuery a handler calls is the one of the instance that rendered it,
\* and the call is made whether or not that instance is still mounted: for a
\* handler of the mounted page it writes query, for a handler of an unmounted
\* one it is a write issued to an instance that is gone (recorded on the call),
\* which never reaches the query of a page mounted since.
RemoteResolvedLatched(r, newQuery) ==
  /\ r \in InFlight /\ r.pc = "remote"
  /\ newQuery \in RemoteResults(r)
  /\ query' = IF r.live THEN LatchUpdater(query, newQuery) ELSE query
  /\ known' = IF r.live THEN newQuery ELSE known
  /\ mutated' = (mutated \/ r.live)
  /\ calls' = Replace(r, [r EXCEPT !.pc = "refresh", !.lateWrite = ~r.live])
  /\ UNCHANGED <<mounted, promptId, serverQuery, isLoadingServerQuery, error,
                 effectPending>>
RemoteResolvedNoWrite(r, newQuery) ==
  /\ r \in InFlight /\ r.pc = "remote"
  /\ newQuery \in RemoteResults(r)
  /\ known' = IF r.live THEN newQuery ELSE known
  /\ mutated' = (mutated \/ r.live)
  /\ calls' = Replace(r, [r EXCEPT !.pc = "refresh"])
  /\ UNCHANGED <<mounted, promptId, serverQuery, isLoadingServerQuery, error, query,
                 effectPending>>
RemoteResolvedNotAwaitingRefresh(r, newQuery) ==
  /\ r \in InFlight /\ r.pc = "remote"
  /\ newQuery \in RemoteResults(r)
  /\ query' = IF r.live THEN newQuery ELSE query
  /\ known' = IF r.live THEN newQuery ELSE known
  /\ mutated' = (mutated \/ r.live)
  /\ calls' = Replace(r, Settled("resolved", TRUE))
  /\ UNCHANGED <<mounted, promptId, serverQuery, isLoadingServerQuery, error,
                 effectPending>>
RemoteResolved(r, newQuery) ==
  /\ r \in InFlight /\ r.pc = "remote"
  /\ newQuery \in RemoteResults(r)
  /\ query' = IF r.live THEN newQuery ELSE query
  /\ known' = IF r.live THEN newQuery ELSE known
  /\ mutated' = (mutated \/ r.live)
  /\ calls' = Replace(r, [r EXCEPT !.pc = "refresh", !.lateWrite = ~r.live])
  /\ UNCHANGED <<mounted, promptId, serverQuery, isLoadingServerQuery, error,
                 effectPending>>

\* the awaited remote operation rejects: the handler's promise rejects
RemoteRejectedThenRefresh(r) ==
  /\ r \in InFlight /\ r.pc = "remote"
  /\ calls' = Replace(r, [r EXCEPT !.pc = "refresh"])
  /\ UNCHANGED <<mounted, promptId, serverQuery, isLoadingServerQuery, error, query,
                 effectPending, known, mutated>>
RemoteRejected(r) ==
  /\ r \in InFlight /\ r.pc = "remote"
  /\ calls' = Replace(r, Settled("rejected", TRUE))
  /\ UNCHANGED <<mounted, promptId, serverQuery, isLoadingServerQuery, error, query,
                 effectPending, known, mutated>>

\* The promise of mutate(), for a re-fetch that succeeded or failed.  What the
\* loader does with a failed re-fetch is not fixed by the page: the promise may
\* resolve, the failure showing only in the loader's error, or reject.
mutateOutcome(ok) == IF ok THEN {"resolved"} ELSE {"resolved", "rejected"}

\* `return mutate()`: the handler's promise settles as the promise of mutate()
\* does, there is no catch around it.  The refreshed payload is not read.
Observes(r) == mounted /\ r.live /\ r.id = promptId
RefreshSettled(r, ok, outcome, d) ==
  /\ r \in InFlight /\ r.pc = "refresh"
  /\ outcome \in mutateOutcome(ok)
  /\ d \in Results(r)
  /\ calls' = Replace(r, Settled(outcome, ok))
  /\ IF Observes(r)
       THEN /\ ~effectPending
            /\ serverQuery' = IF ok THEN d ELSE serverQuery
            /\ error' = ~ok
            /\ isLoadingServerQuery' = FALSE
            /\ effectPending' = (ok /\ d # serverQuery)
            /\ known' = IF ok THEN Delivered(d) ELSE known
       ELSE UNCHANGED <<serverQuery, error, isLoadingServerQuery, effectPending,
                        known>>
  /\ UNCHANGED <<mounted, promptId, query, mutated>>

\* the caller has seen the handler's promise settle
Release(r) ==
  /\ r \in InFlight /\ r.pc \in {"resolved", "rejected"}
  /\ calls' = calls (-) SetToBag({r})
  /\ UNCHANGED <<mounted, promptId, serverQuery, isLoadingServerQuery, error, query,
                 effectPending, known, mutated>>

\* ------------------------------------------------------ router and mounting

\* router.query.queryId changes while the page stays mounted
RouteChange(newId, d, l) ==
  /\ mounted /\ ~effectPending
  /\ newId # promptId
  /\ d = undefined \/ d.id = newId
  /\ promptId' = newId
  /\ serverQuery' = d
  /\ isLoadingServerQuery' = l
  /\ error' = FALSE
  /\ effectPending' = (d # serverQuery)
  /\ known' = Delivered(d)
  /\ UNCHANGED <<mounted, query, calls, mutated>>

\* The state of the instance is destroyed.  Its handlers in flight keep
\* running, detached from any mounted instance; only their position is kept.
Orphan(r) ==
  IF r.pc \in {"remote", "refresh"}
    THEN [Call(r.pc, "", "", FALSE) EXCEPT !.lateWrite = r.lateWrite]
    ELSE r
Unmount ==
  /\ mounted
  /\ mounted' = FALSE
  /\ query' = undefined
  /\ serverQuery' = undefined
  /\ isLoadingServerQuery' = FALSE
  /\ error' = FALSE
  /\ effectPending' = FALSE
  /\ calls' = BagOfAll(Orphan, calls)
  /\ known' = undefined
  /\ mutated' = FALSE
  /\ UNCHANGED promptId

Mount(newId, d, l) ==
  /\ ~mounted
  /\ d = undefined \/ d.id = newId
  /\ mounted' = TRUE
  /\ promptId' = newId
  /\ query' = undefined
  /\ serverQuery' = d
  /\ isLoadingServerQuery' = l
  /\ error' = FALSE
  /\ effectPending' = TRUE
  /\ known' = d
  /\ mutated' = FALSE
  /\ UNCHANGED calls

\* ---------------------------------------------------------------- Next
LoaderData == Query \cup {undefined}

Next ==
  \/ \E d \in LoaderData, l \in BOOLEAN, e \in BOOLEAN : LoaderNotify(d, l, e)
  \/ UseEffect
  \/ handleResubmitQuery
  \/ \E s \in SqlTexts : handleExecuteQuery(s)
  \/ \E p \in Puts : handlePutQuery(p)
  \/ \E r \in InFlight, q \in Query : RemoteResolved(r, q)
  \/ \E r \in InFlight : RemoteRejected(r)
  \/ \E r \in InFlight, ok \in BOOLEAN, d \in Query :
       \E outcome \in mutateOutcome(ok) : RefreshSettled(r, ok, outcome, d)
  \/ \E r \in InFlight : Release(r)
  \/ \E i \in Ids, d \in LoaderData, l \in BOOLEAN : RouteChange(i, d, l)
  \/ Unmount
  \/ \E i \in Ids, d \in LoaderData, l \in BOOLEAN : Mount(i, d, l)

Spec == Init /\ [][Next]_vars

\* React runs the effect of a committed render: a pending effect is not
\* postponed for ever.
FairSpec == Init /\ [][Next]_vars /\ WF_vars(UseEffect)

TypeOK ==
  /\ mounted \in BOOLEAN
  /\ promptId \in Ids
  /\ serverQuery \in LoaderData
  /\ query \in LoaderData
  /\ IsABag(calls) /\ InFlight \subseteq CallRecord
  /\ BagCardinality(calls) <= MaxCalls
\* ---------------------------------------------------------- properties

\* the step is a LoaderNotify, with whatever output
AnyLoaderNotify == LoaderNotify(serverQuery', isLoadingServerQuery', error')
\* the step is a RefreshSettled, of whichever handler and with whatever outcome
AnyRefreshSettled ==
  /\ calls' # calls
  /\ \E r \in InFlight :
       r.pc = "refresh" /\ \E ok \in BOOLEAN, d \in Results(r) :
         \E outcome \in mutateOutcome(ok) : RefreshSettled(r, ok, outcome, d)
Shown(q) == IF error THEN ErrorView ELSE Workspace(q)
\* the calls of a bag that are at pc, how many handlers are in their refresh,
\* how many promises are resolved, how many rejected
Phase(b, pc) == [x \in {y \in BagToSet(b) : y.pc = pc} |-> b[x]]
RefreshesIn(b) == BagCardinality(Phase(b, "refresh"))
ResolvedIn(b) == CopiesIn(Settled("resolved", TRUE), b) + CopiesIn(Settled("resolved", FALSE), b)
RejectedIn(b) == CopiesIn(Settled("rejected", TRUE), b) + CopiesIn(Settled("rejected", FALSE), b)
\* how many handlers have called setQuery after their instance was unmounted
LateWritesIn(b) == BagCardinality([x \in {y \in BagToSet(b) : y.lateWrite} |-> b[x]])

\* C1: once query holds a value, no change of the loader's output (the one a
\* handler's own refresh brings included) and no run of the effect that
\* follows it changes query, and what is rendered stays bound to that value.
C1_OneShotLatch ==
  [][(query # undefined /\ (AnyLoaderNotify \/ UseEffect \/ AnyRefreshSettled))
       => (query' = query /\ View' = Shown(query)')]_vars
\* the loader delivered a value other than the one held, no handler has
\* completed, and the effect has run on it
C1_Witness ==
  /\ mounted /\ ~effectPending /\ ~mutated
  /\ query # undefined /\ serverQuery # undefined /\ serverQuery # query
  /\ serverQuery.id = query.id

\* C2: when the remote call of a handler of the mounted page resolves with R,
\* query becomes R whatever it held, the page renders the Workspace bound to R
\* unless the loader reports an error, and the handler goes on to its refresh.
C2_MutationWins ==
  [][\A r \in InFlight :
       (r.pc = "remote" /\ r.live /\ calls' # calls) =>
       \A R \in RemoteResults(r) :
       RemoteResolved(r, R)
         => /\ query' = R
            /\ View' = Shown(R)
            /\ CopiesIn([r EXCEPT !.pc = "refresh"], calls')
                 = CopiesIn([r EXCEPT !.pc = "refresh"], calls) + 1]_vars
\* execute has resolved with a value that is not the loader's current one,
\* and is in its refresh
C2_Witness ==
  /\ mounted /\ ~error
  /\ BagIn(Call("refresh", "execute", promptId, TRUE), calls)
  /\ mutated /\ query = known /\ serverQuery # undefined /\ query # serverQuery
  /\ View = Workspace(known)

\* C3: when the remote call of a handler rejects, query and the loader's output
\* are left as they were, no handler enters its refresh, and the handler's
\* promise is rejected.
C3_RemoteFailure ==
  [][\A r \in InFlight :
       (r.pc = "remote" /\ calls' # calls /\ RemoteRejected(r))
         => /\ query' = query
            /\ <<serverQuery, isLoadingServerQuery, error>>'
                 = <<serverQuery, isLoadingServerQuery, error>>
            /\ \A x \in BagToSet(calls') :
                 x.pc = "refresh" => CopiesIn(x, calls') <= CopiesIn(x, calls)
            /\ CopiesIn(Settled("rejected", TRUE), calls')
                 = CopiesIn(Settled("rejected", TRUE), calls) + 1
            /\ CopiesIn(r, calls') = CopiesIn(r, calls) - 1]_vars
\* a handler of the mounted page has been rejected and query still holds the
\* seeded value
C3_Witness ==
  /\ mounted /\ BagIn(Settled("rejected", TRUE), calls)
  /\ query # undefined /\ query = known /\ ~mutated

\* C4: what is rendered is one of Loading, Error, Workspace, empty, chosen in
\* this order: Loading if the loader is loading and query is unset, else Error
\* if the loader reports an error, else the Workspace bound to query if it is
\* set, else empty.
C4_ViewSelector ==
  mounted =>
    /\ View.kind \in {"Loading", "Error", "Workspace", "Empty"}
    /\ (isLoadingServerQuery /\ query = undefined) => View = Loading
    /\ (~(isLoadingServerQuery /\ query = undefined) /\ error) => View = ErrorView
    /\ (~(isLoadingServerQuery /\ query = undefined) /\ ~error /\ query # undefined)
         => View = Workspace(query)
    /\ (~isLoadingServerQuery /\ ~error /\ query = undefined) => View = Empty
\* the loader is loading and reports an error while query is unset
C4_Witness ==
  mounted /\ isLoadingServerQuery /\ error /\ query = undefined /\ ~effectPending

\* C5: query starts unset and the page renders Loading; a run of the effect
\* while query is unset leaves it unset when the loader's value is undefined,
\* and otherwise sets it to the loader's value, the page then rendering the
\* Workspace bound to it unless the loader reports an error.
C5_InitialSeeding ==
  /\ (query = undefined /\ View = Loading)
  /\ [][(UseEffect /\ query = undefined)
          => /\ query' = serverQuery
             /\ (serverQuery = undefined /\ isLoadingServerQuery) => View' = Loading
             /\ (serverQuery # undefined /\ ~error) => View' = Workspace(serverQuery)]_vars
\* the first load has finished without error and seeded query
C5_Witness ==
  /\ mounted /\ ~effectPending /\ ~isLoadingServerQuery /\ ~error
  /\ BagCardinality(calls) = 0 /\ ~mutated
  /\ known # undefined /\ query = known /\ serverQuery = known
  /\ View = Workspace(known)

\* C6: a change of the loader's flags leaves query as it was; while query is
\* set the page renders Error whenever the error flag is set, and the Workspace
\* bound to the unchanged query whenever it is not.
C6_ErrorPreempts ==
  [][(AnyLoaderNotify \/ AnyRefreshSettled)
       => /\ query' = query
          /\ (query # undefined /\ error') => View' = ErrorView
          /\ (query # undefined /\ ~error') => View' = Workspace(query)]_vars
\* the loader reports an error, not loading, while query holds a handler's result
C6_Witness ==
  /\ mounted /\ error /\ ~isLoadingServerQuery
  /\ query # undefined /\ mutated /\ query = known /\ View = ErrorView

C8_MostRecentKnown ==
  (mounted /\ query # undefined)
    => query = known
\* one handler has completed and is in its refresh while another still awaits
\* its remote call, and the loader holds yet another value
C8_Witness ==
  /\ mounted /\ query # undefined /\ mutated /\ query = known
  /\ \E r1 \in InFlight, r2 \in InFlight :
       r1.live /\ r2.live /\ r1.pc = "refresh" /\ r2.pc = "remote"
  /\ serverQuery # undefined /\ serverQuery # query

\* C9: after the identifier has changed without a remount, once the loader has
\* delivered the query of the new identifier and the effect has run, query is
\* that identifier's query (no handler having completed).
C9_RearmOnIdentifierChange ==
  (mounted /\ ~effectPending /\ serverQuery # undefined /\ ~mutated)
    => (query # undefined /\ query.id = promptId)

C11_WriteBeforeRefresh ==
  [][calls' # calls =>
       /\ RefreshesIn(calls') > RefreshesIn(calls) =>
            \E r \in InFlight :
              /\ r.pc = "remote"
              /\ \E R \in RemoteResults(r) : RemoteResolved(r, R) /\ (r.live => query' = R)
       /\ \A r \in InFlight :
            r.pc = "remote" =>
            \A R \in RemoteResults(r) :
              RemoteResolved(r, R)
                => /\ RefreshesIn(calls') = RefreshesIn(calls) + 1
                   /\ BagCardinality(calls') = BagCardinality(calls)
                   /\ r.live => query' = R]_vars
\* two handlers of the mounted page are in their refresh, query holding the
\* result of the later one
C11_Witness ==
  /\ mounted /\ mutated /\ query = known /\ query # undefined
  /\ RefreshesIn(calls) = 2
  /\ \A r \in InFlight : r.live

\* C12: a handler's promise resolves only in the step in which its refresh
\* settles, and that step leaves query as it was, whatever payload the refresh
\* brought.
C12_ResolvesAfterRefresh ==
  [][calls' # calls =>
       /\ ResolvedIn(calls') > ResolvedIn(calls)
            => (AnyRefreshSettled /\ query' = query)
       /\ \A r \in InFlight :
            r.pc = "refresh" =>
            \A d \in Results(r) :
              RefreshSettled(r, TRUE, "resolved", d) => (query' = query /\ serverQuery' \in {d, serverQuery})]_vars
\* a handler has resolved after a successful refresh whose payload, now the
\* loader's value, differs from query
C12_Witness ==
  /\ mounted /\ ~error /\ ~effectPending /\ mutated
  /\ BagIn(Settled("resolved", TRUE), calls)
  /\ serverQuery # undefined /\ query = known /\ query # serverQuery
  /\ serverQuery.id = query.id

\* C13: while query is set, the view does not depend on the loading flag: with
\* the error flag and query of any reachable state, loading and not loading
\* select the same view, which is never Loading.
C13_LoadingFlagIgnoredOnceSet ==
  (mounted /\ query # undefined)
    => /\ pageContent(TRUE, error, query) = pageContent(FALSE, error, query)
       /\ View = pageContent(~isLoadingServerQuery, error, query)
       /\ View.kind # "Loading"
\* the loader revalidates in the background while the Workspace is rendered
C13_Witness ==
  /\ mounted /\ isLoadingServerQuery /\ ~error /\ query # undefined
  /\ View = Workspace(query)

\* C14: while the page stays mounted, a query that is set stays set.
C14_LatchNeverReopened ==
  [][(mounted /\ mounted' /\ query # undefined) => query' # undefined]_vars
\* the loader's data went back to undefined during a revalidation, the effect
\* has run on it, and query still holds its value
C14_Witness ==
  /\ mounted /\ ~effectPending /\ serverQuery = undefined /\ isLoadingServerQuery
  /\ query # undefined /\ query.id = promptId

\* C15: a handler is started only while the Workspace is rendered (query set,
\* no loader error), and the remote call of a handler of the mounted page
\* never resolves while query is unset.
C15_StartedFromWorkspace ==
  [][calls' # calls =>
       /\ BagCardinality(calls') > BagCardinality(calls)
            => (mounted /\ query # undefined /\ ~error /\ View = Workspace(query))
       /\ \A r \in InFlight :
            (r.pc = "remote" /\ r.live) =>
            \A R \in RemoteResults(r) : RemoteResolved(r, R) => query # undefined]_vars
\* a handler started from the Workspace still awaits its remote call while the
\* loader has since reported an error
C15_Witness ==
  /\ mounted /\ error /\ query # undefined /\ ~mutated
  /\ \E r \in InFlight : r.live /\ r.pc = "remote" /\ r.id = promptId

\* C16: query, when set, is a query of the page's current identifier (so the
\* Workspace shows the query its callbacks act on, and a handler started for
\* another identifier does not write its result).
C16_QueryBelongsToIdentifier ==
  (mounted /\ query # undefined) => query.id = promptId
\* C17: with the pending effect eventually run, whenever the loader has
\* delivered a defined query to a mounted page whose query is unset, the page
\* is later unmounted or has query set and renders the Workspace bound to it
\* (the Error view if the loader reports an error), not Loading or empty.
C17_EventualSeeding ==
  (mounted /\ serverQuery # undefined /\ query = undefined)
    ~> (~mounted \/ (query # undefined /\ View = Shown(query)))
\* a page mounted on cached data (not loading) has been seeded by its effect
\* while its loader reports an error
C17_Witness ==
  /\ mounted /\ ~effectPending /\ ~mutated /\ error
  /\ query # undefined /\ query = serverQuery /\ View = ErrorView
  /\ BagCardinality(calls) = 0
====
